---- MODULE Spec2Model ----
(***************************************************************************)
(* A model of the token world of the map game: Token, TokenGrid (flyweight *)
(* cache + cell mementos), Player, the TokenGame coordinator and the       *)
(* GameStateManager persistence layer.                                     *)
(*                                                                         *)
(* JavaScript strings are sequences of one-character strings, so that the  *)
(* two kinds of key kept in TokenGrid.tokens ("val-4" and "0,1") live in    *)
(* one key space as they do in the program.  A JavaScript object is a      *)
(* record with an id field: the `new` expression that made it, the grid    *)
(* whose cache made it, and a serial number no live object of that site    *)
(* and value has, so two live objects never share an id.                   *)
(* `null` in a number|null field is Null, a null reference is NullToken,   *)
(* and the absence of a Map entry is the absence of the key from DOMAIN.   *)
(***************************************************************************)
EXTENDS Integers, Sequences, FiniteSets, TLC

\* ------------------------------------------------------------------------
\* Bounds of the model
\* ------------------------------------------------------------------------

\* Largest token value a combine() may produce in the model.
MaxValue == 2

\* Most tokens made by combine() that a client of the API keeps alive at once.
MaxClientTokens == 1

\* The grid cells the model looks at: the origin, a neighbour with a negative
\* index, and one cell out of interaction range of the origin.
Coords == {<<0, 0>>, <<-1, 0>>, <<0, 4>>}

\* Token values a client asks getOrCreateToken for.
ClientValues == {1, 2}

\* Thresholds hasWinningToken is asked about.
Thresholds == {1, 2, 3}

\* TokenGrid instances of the API specification.
GridIds == {1, 2}

\* ------------------------------------------------------------------------
\* Encodings
\* ------------------------------------------------------------------------

Null == -1

Undecided == -2

NullToken == [id |-> <<"null", 0, 0>>, value |-> Null]

EmptyMap == <<>>

MapRemove(m, k) == [x \in (DOMAIN m) \ {k} |-> m[x]]

MapPut(m, k, v) == [x \in (DOMAIN m) \cup {k} |-> IF x = k THEN v ELSE m[x]]

Digit(d) == CASE d = 0 -> "0" [] d = 1 -> "1" [] d = 2 -> "2" [] d = 3 -> "3"
              [] d = 4 -> "4" [] d = 5 -> "5" [] d = 6 -> "6" [] d = 7 -> "7"
              [] d = 8 -> "8" [] d = 9 -> "9"

RECURSIVE NatToStr(_)
NatToStr(n) == IF n < 10 THEN <<Digit(n)>>
               ELSE NatToStr(n \div 10) \o <<Digit(n % 10)>>

\* Template-literal conversion of an integer: `${n}`.
IntToStr(n) == IF n < 0 THEN <<"-">> \o NatToStr(0 - n) ELSE NatToStr(n)

\* ------------------------------------------------------------------------
\* GridCoord
\* ------------------------------------------------------------------------

\* GridCoord.toString: `${this.i},${this.j}`.
CoordToString(c) == IntToStr(c[1]) \o <<",">> \o IntToStr(c[2])

\* ------------------------------------------------------------------------
\* luck: the deterministic hash of a string key, in hundredths of [0,1).
\* ------------------------------------------------------------------------

TokenRollKey(c) == CoordToString(c) \o <<",", "t", "o", "k", "e", "n">>

ValueRollKey(c) == CoordToString(c) \o <<",", "v", "a", "l", "u", "e">>

Luck(key) ==
    CASE key = TokenRollKey(<<0, 0>>) -> 5
      [] key = ValueRollKey(<<0, 0>>) -> 10
      [] key = TokenRollKey(<<-1, 0>>) -> 19
      [] key = ValueRollKey(<<-1, 0>>) -> 24
      [] key = TokenRollKey(<<0, 4>>) -> 20
      [] key = ValueRollKey(<<0, 4>>) -> 77
      [] key = TokenRollKey(<<1, 0>>) -> 0
      [] key = ValueRollKey(<<1, 0>>) -> 24
      [] key = TokenRollKey(<<1, 1>>) -> 10
      [] key = ValueRollKey(<<1, 1>>) -> 0
      [] OTHER -> 50

\* GameConfig.DEFAULT.tokenSpawnProbability = 0.2, in hundredths.
TokenSpawnProbability == 20

\* ------------------------------------------------------------------------
\* Token
\* ------------------------------------------------------------------------

\* `new Token(value)` at allocation site `site` (owner: the grid whose cache
\* runs it, 0 elsewhere): an object no live reference in `used` denotes.
NewToken(used, site, owner, value) ==
    LET Obj(n) == [id |-> <<site, owner, n>>, value |-> value] IN
    Obj(CHOOSE n \in 1..(Cardinality(used) + 1) :
            /\ Obj(n) \notin used
            /\ \A m \in 1..(n - 1) : Obj(m) \in used)

CanCombineWith(t, other) == t.value = other.value

\* Faulty variant: the receiver itself is doubled and returned.
CombineInPlace(used, t) == [t EXCEPT !.value = t.value * 2]

Combine(used, t) == NewToken(used, "combine", 0, t.value * 2)

IsWinning(t, winningValue) == t.value >= winningValue

\* ------------------------------------------------------------------------
\* TokenGrid
\* ------------------------------------------------------------------------

NewTokenGrid(owner) == [owner |-> owner, tokens |-> EmptyMap, modifiedCells |-> EmptyMap]

\* `new GameConfig(...)`: the constructor stores its arguments; thrown tells
\* whether it threw.  Probabilities are in hundredths.
NewGameConfig(globalLatLng, cellSize, interactionRadius, tokenSpawnProbability, winningVal) ==
    [thrown |-> FALSE,
     config |-> [globalLatLng |-> globalLatLng, cellSize |-> cellSize,
                 interactionRadius |-> interactionRadius,
                 tokenSpawnProbability |-> tokenSpawnProbability,
                 winningVal |-> winningVal]]

\* `new TokenGrid(config)`: the constructor keeps the configuration.
NewConfiguredTokenGrid(owner, config) ==
    [thrown |-> FALSE, config |-> config, grid |-> NewTokenGrid(owner)]

\* A faulty variant: a key made of the row index alone.
GetKeyRowOnly(coord) == IntToStr(coord[1])

GetKey(coord) == CoordToString(coord)

ValKey(value) == <<"v", "a", "l", "-">> \o IntToStr(value)

SaveMemento(grid, coord, token) ==
    [grid EXCEPT !.modifiedCells =
        MapPut(@, GetKey(coord),
               [tokenValue |-> IF token # NullToken THEN token.value ELSE Null])]

GetOrCreateToken(grid, used, value) ==
    LET key == ValKey(value) IN
    IF key \notin DOMAIN grid.tokens
    THEN LET t == NewToken(used, "cache", grid.owner, value) IN
         [grid |-> [grid EXCEPT !.tokens = MapPut(@, key, t)], token |-> t]
    ELSE [grid |-> grid, token |-> grid.tokens[key]]

\* found = FALSE is the `undefined` result.
LoadMemento(grid, used, coord) ==
    LET key == GetKey(coord) IN
    IF key \notin DOMAIN grid.modifiedCells
    THEN [grid |-> grid, found |-> FALSE, token |-> NullToken]
    ELSE IF grid.modifiedCells[key].tokenValue = Null
    THEN [grid |-> grid, found |-> TRUE, token |-> NullToken]
    ELSE LET r == GetOrCreateToken(grid, used, grid.modifiedCells[key].tokenValue)
         IN [grid |-> r.grid, found |-> TRUE, token |-> r.token]

\* The largest value the generator gives a token: floor(luck * 4) + 1.
MaxInitialPower == 4

\* Faulty variant: the value roll is rounded to the nearest integer.
SpawnValueRounded(valueRoll) == ((valueRoll * MaxInitialPower + 50) \div 100) + 1

\* Math.floor(luck(...) * 4) + 1, the roll in hundredths.
SpawnValue(valueRoll) == ((valueRoll * MaxInitialPower) \div 100) + 1

\* The spawn branch of getOrSpawn, the two luck results given.
SpawnWith(grid, used, coord, spawnRoll, valueRoll) ==
    IF spawnRoll < TokenSpawnProbability
    THEN LET r == GetOrCreateToken(grid, used, SpawnValue(valueRoll))
         IN [grid |-> SaveMemento(r.grid, coord, r.token),
             token |-> r.token, rolled |-> TRUE]
    ELSE [grid |-> SaveMemento(grid, coord, NullToken),
          token |-> NullToken, rolled |-> TRUE]

\* The spawn decision itself, for a cell without memento.
SpawnRoll(grid, used, coord) ==
    SpawnWith(grid, used, coord, Luck(TokenRollKey(coord)), Luck(ValueRollKey(coord)))

\* Faulty variant: the memento test is a truthiness test, so a memento that records an
\* empty cell is not honoured and the cell is rolled again.
GetOrSpawnTruthy(grid, used, coord) ==
    LET m == LoadMemento(grid, used, coord) IN
    IF m.found /\ m.token # NullToken
    THEN [grid |-> m.grid, token |-> m.token, rolled |-> FALSE]
    ELSE SpawnRoll(grid, used, coord)

\* Faulty variant: the spawn roll is keyed by the number of cells decided so far
\* instead of the cell's row, so the outcome depends on the visit order.
GetOrSpawnVisitOrder(grid, used, coord) ==
    LET m == LoadMemento(grid, used, coord) IN
    IF m.found
    THEN [grid |-> m.grid, token |-> m.token, rolled |-> FALSE]
    ELSE SpawnRoll(grid, used,
                   <<coord[1] + Cardinality(DOMAIN grid.modifiedCells), coord[2]>>)

\* rolled tells whether the spawn generator (luck) was evaluated.
GetOrSpawn(grid, used, coord) ==
    LET key == GetKey(coord)
        m == LoadMemento(grid, used, coord)
    IN
    IF m.found
    THEN [grid |-> m.grid, token |-> m.token, rolled |-> FALSE]
    ELSE IF key \in DOMAIN grid.tokens
    THEN [grid |-> grid, token |-> grid.tokens[key], rolled |-> FALSE]
    ELSE SpawnRoll(grid, used, coord)

\* Faulty variant: the placement is not recorded as a memento.
PlaceTokenNoMemento(grid, coord, token) ==
    [grid EXCEPT !.tokens = MapPut(@, GetKey(coord), token)]

PlaceToken(grid, coord, token) ==
    LET key == GetKey(coord) IN
    SaveMemento([grid EXCEPT !.tokens = MapPut(@, key, token)], coord, token)

\* Faulty variant: the removal is not recorded as a memento.
RemoveTokenNoMemento(grid, coord) ==
    LET key == GetKey(coord)
        token == IF key \in DOMAIN grid.tokens THEN grid.tokens[key] ELSE NullToken
    IN [grid |-> [grid EXCEPT !.tokens = MapRemove(@, key)], token |-> token]

\* Faulty variant: the removal also drops the flyweight entry of the removed value.
RemoveTokenEvicts(grid, coord) ==
    LET key == GetKey(coord)
        token == IF key \in DOMAIN grid.tokens THEN grid.tokens[key] ELSE NullToken
        value == IF key \in DOMAIN grid.modifiedCells
                 THEN grid.modifiedCells[key].tokenValue ELSE Null
    IN [grid |-> SaveMemento(
                    [grid EXCEPT !.tokens = MapRemove(MapRemove(@, key), ValKey(value))],
                    coord, NullToken),
        token |-> token]

RemoveToken(grid, coord) ==
    LET key == GetKey(coord)
        token == IF key \in DOMAIN grid.tokens THEN grid.tokens[key] ELSE NullToken
    IN [grid |-> SaveMemento([grid EXCEPT !.tokens = MapRemove(@, key)],
                             coord, NullToken),
        token |-> token]

HasWinningToken(grid, winningValue) ==
    \E k \in DOMAIN grid.tokens : IsWinning(grid.tokens[k], winningValue)

\* The state of a cell as its memento records it.
CellState(grid, coord) ==
    IF GetKey(coord) \in DOMAIN grid.modifiedCells
    THEN grid.modifiedCells[GetKey(coord)].tokenValue
    ELSE Undecided

GridTokens(grid) == {grid.tokens[k] : k \in DOMAIN grid.tokens}

\* ------------------------------------------------------------------------
\* GridCoord distance and Player
\* ------------------------------------------------------------------------

\* GameConfig.DEFAULT.interactionRadius.
InteractionRadius == 3

\* The square of distanceTo(other), the Euclidean distance of the cells.
DistanceToSq(a, b) == (a[1] - b[1]) * (a[1] - b[1]) + (a[2] - b[2]) * (a[2] - b[2])

\* distanceTo(other) <= radius + 0.3, both sides squared and scaled by 100.
IsWithin(a, b, radius) ==
    100 * DistanceToSq(a, b) <= (10 * radius + 3) * (10 * radius + 3)

NewPlayer(initialPos) == [position |-> initialPos, inventory |-> NullToken]

\* Faulty variant: every cell counts as in range.
IsInRangeAnywhere(p, coord, interactionRadius) == TRUE

IsInRange(p, coord, interactionRadius) == IsWithin(p.position, coord, interactionRadius)

PickUpToken(p, token) == [p EXCEPT !.inventory = token]

\* Faulty variant: the slot keeps the token it hands out.
PlayerPlaceTokenKeeps(p) == [player |-> p, token |-> p.inventory]

\* Player.placeToken: empties the slot and returns what it held.
PlayerPlaceToken(p) == [player |-> [p EXCEPT !.inventory = NullToken], token |-> p.inventory]

PlayerHasWinningToken(p, winningValue) ==
    p.inventory # NullToken /\ IsWinning(p.inventory, winningValue)

\* ------------------------------------------------------------------------
\* MoveManager.  started is the set of controls whose own isActive flag is set.
\* ------------------------------------------------------------------------

\* The controls initMoveCtrls registers.
Controls == {"buttons", "geolocation"}

NoCtrl == "none"

\* controls: the names a control is registered under.
NewMoveManager ==
    [currentCtrl |-> NoCtrl, controls |-> {}, isActive |-> FALSE, started |-> {}]

RegCtrl(m, name) == [m EXCEPT !.controls = @ \cup {name}]

\* Faulty variant: the new control is started first and the current one is
\* stopped afterwards.
SwitchCtrlStartsFirst(m, modeName) ==
    IF modeName \notin m.controls
    THEN [mgr |-> m, ok |-> FALSE]
    ELSE [mgr |-> [m EXCEPT !.currentCtrl = modeName,
                            !.started = IF m.currentCtrl # NoCtrl
                                        THEN (IF m.isActive THEN @ \cup {modeName} ELSE @)
                                                 \ {m.currentCtrl}
                                        ELSE IF m.isActive THEN @ \cup {modeName} ELSE @],
          ok |-> TRUE]

SwitchCtrl(m, modeName) ==
    LET stopped == IF m.currentCtrl # NoCtrl
                   THEN [m EXCEPT !.started = @ \ {m.currentCtrl}]
                   ELSE m
    IN
    IF modeName \notin m.controls
    THEN [mgr |-> stopped, ok |-> FALSE]
    ELSE [mgr |-> [stopped EXCEPT !.currentCtrl = modeName,
                                  !.started = IF stopped.isActive
                                              THEN @ \cup {modeName} ELSE @],
          ok |-> TRUE]

MoveManagerStart(m) ==
    [m EXCEPT !.isActive = TRUE,
              !.started = IF m.currentCtrl # NoCtrl THEN @ \cup {m.currentCtrl} ELSE @]

MoveManagerStop(m) ==
    [m EXCEPT !.isActive = FALSE,
              !.started = IF m.currentCtrl # NoCtrl THEN @ \ {m.currentCtrl} ELSE @]

\* TokenGame.initMoveCtrls.
InitMoveCtrls(m) == RegCtrl(RegCtrl(m, "buttons"), "geolocation")

\* ------------------------------------------------------------------------
\* GameStateManager.  The localStorage item is NoItem (getItem gives null), a
\* text that is no JSON document, or the text of a JSON document; a JSON
\* object is a record and a field it lacks is absent from its DOMAIN.
\* ------------------------------------------------------------------------

Version == "1.0.0"

NoItem == [kind |-> "none"]

NotJson == [kind |-> "text"]

JsonStringify(data) == [kind |-> "json", data |-> data]

\* ok = FALSE: JSON.parse throws.
JsonParse(text) ==
    IF text.kind = "json" THEN [ok |-> TRUE, data |-> text.data] ELSE [ok |-> FALSE]

SerializablePlayerToJSON(position, inventory) ==
    [position |-> [i |-> position[1], j |-> position[2]],
     inventory |-> IF inventory # NullToken THEN inventory.value ELSE Null]

\* The entries of a Map as an array.
RECURSIVE Entries(_, _)
Entries(m, keys) ==
    IF keys = {} THEN <<>>
    ELSE LET k == CHOOSE x \in keys : TRUE IN
         <<[coord |-> k, tokenValue |-> m[k].tokenValue]>> \o Entries(m, keys \ {k})

\* Faulty variant: only cells that hold a token are written out.
SerializableGridToJSONTokensOnly(modifiedCells) ==
    [modifiedCells |->
        Entries(modifiedCells,
                {k \in DOMAIN modifiedCells : modifiedCells[k].tokenValue # Null})]

SerializableGridToJSON(modifiedCells) ==
    [modifiedCells |-> Entries(modifiedCells, DOMAIN modifiedCells)]

RECURSIVE CellsFromEntries(_, _)
CellsFromEntries(items, cells) ==
    IF items = <<>> THEN cells
    ELSE CellsFromEntries(Tail(items),
                          MapPut(cells, Head(items).coord,
                                 [tokenValue |-> Head(items).tokenValue]))

SerializableGridFromJSON(data) ==
    IF "modifiedCells" \in DOMAIN data
    THEN CellsFromEntries(data.modifiedCells, EmptyMap)
    ELSE EmptyMap

SerializablePlayerFromJSON(data, gameGrid) ==
    [position |-> <<data.position.i, data.position.j>>,
     inventory |-> IF data.inventory # Null
                   THEN GetOrCreateToken(gameGrid, GridTokens(gameGrid), data.inventory).token
                   ELSE NullToken]

\* GameStateManager.saveGame; writeOk = FALSE: localStorage.setItem throws.
ManagerSaveGame(store, position, inventory, gridModifiedCells, gameWon, movementMode, writeOk) ==
    LET saveData == [player |-> SerializablePlayerToJSON(position, inventory),
                     grid |-> SerializableGridToJSON(gridModifiedCells),
                     gameWon |-> gameWon,
                     version |-> Version,
                     movementMode |-> movementMode]
    IN IF writeOk
       THEN [storage |-> JsonStringify(saveData), ok |-> TRUE]
       ELSE [storage |-> store, ok |-> FALSE]

\* The owner tags of the two places that run `new TokenGrid`.
SessionGrid == 1

TempGrid == 2

\* The forEach of loadGame over the restored cells, on the temporary grid.
RECURSIVE RebuildTokens(_, _)
RebuildTokens(tempGrid, items) ==
    IF items = <<>> THEN tempGrid
    ELSE LET v == Head(items).tokenValue IN
         RebuildTokens(IF v # Null
                       THEN GetOrCreateToken(tempGrid, GridTokens(tempGrid), v).grid
                       ELSE tempGrid,
                       Tail(items))

LoadFailure == [success |-> FALSE]

\* GameStateManager.loadGame; a TypeError on a missing object is caught.
ManagerLoadGame(store) ==
    IF store = NoItem THEN LoadFailure
    ELSE LET parsed == JsonParse(store) IN
    IF ~parsed.ok THEN LoadFailure
    ELSE LET data == parsed.data IN
    IF \/ "grid" \notin DOMAIN data
       \/ "player" \notin DOMAIN data
       \/ "position" \notin DOMAIN data.player
    THEN LoadFailure
    ELSE LET cells == SerializableGridFromJSON(data.grid)
             tempGrid == RebuildTokens(NewTokenGrid(TempGrid), Entries(cells, DOMAIN cells))
             playerState == SerializablePlayerFromJSON(data.player, tempGrid)
         IN [success |-> TRUE,
             playerPosition |-> playerState.position,
             playerInventory |-> playerState.inventory,
             gridModifiedCells |-> cells,
             gameWon |-> IF "gameWon" \in DOMAIN data THEN data.gameWon ELSE FALSE,
             movementMode |-> IF "movementMode" \in DOMAIN data
                              THEN data.movementMode ELSE "geolocation"]

DeleteSave(store) == NoItem

ManagerImportGameState(store, exportData) ==
    LET parsed == JsonParse(exportData) IN
    IF ~parsed.ok THEN [ok |-> FALSE, storage |-> store]
    ELSE IF \/ "player" \notin DOMAIN parsed.data
            \/ "grid" \notin DOMAIN parsed.data
            \/ "version" \notin DOMAIN parsed.data
    THEN [ok |-> FALSE, storage |-> store]
    ELSE [ok |-> TRUE, storage |-> exportData]

\* ------------------------------------------------------------------------
\* TokenGame.  A game is [player, grid, gameWon, moveMgr]; a handler that may
\* write the save returns [game, storage, wrote], wrote telling whether the
\* stored item is now the save of the returned game ("saved"), was replaced
\* by something else ("replaced") or was left alone ("no").
\* ------------------------------------------------------------------------

\* config.winningVal of the games of the model.
WinningVal == 2

\* TokenGrid.getModifiedCells / setModifiedCells.
GetModifiedCells(grid) == grid.modifiedCells

SetModifiedCells(grid, cells) == [grid EXCEPT !.modifiedCells = cells]

GameLive(gm) == GridTokens(gm.grid) \cup {gm.player.inventory}

\* Faulty variant: the quotient is truncated towards zero.
LatLngToGridCoordTruncates(position) ==
    <<IF position[1] >= 0 THEN position[1] \div 2 ELSE 0 - ((0 - position[1]) \div 2),
      IF position[2] >= 0 THEN position[2] \div 2 ELSE 0 - ((0 - position[2]) \div 2)>>

\* floor((position - origin) / cellSize), positions in half cells.
LatLngToGridCoord(position) == <<position[1] \div 2, position[2] \div 2>>

RECURSIVE DrawGridCells(_, _, _)
DrawGridCells(grid, used, cells) ==
    IF cells = {} THEN grid
    ELSE LET c == CHOOSE x \in cells : TRUE
             r == GetOrSpawn(grid, used, c)
         IN DrawGridCells(r.grid, used \cup {r.token}, cells \ {c})

NoButton == "none"

\* The action button of the popup drawGridCell binds to a cell: tokenPopup for
\* a cell that holds a token, emptyCellPopup for one that holds none.
PopupAction(gm, coord) ==
    IF ~IsInRange(gm.player, coord, InteractionRadius) \/ gm.gameWon THEN NoButton
    ELSE IF CellState(gm.grid, coord) >= 0
    THEN IF gm.player.inventory = NullToken THEN "pickup"
         ELSE IF gm.player.inventory.value = CellState(gm.grid, coord) THEN "combine"
         ELSE "pickup"
    ELSE IF gm.player.inventory # NullToken THEN "place"
    ELSE NoButton

\* The popups that carry a button, of the cells drawn.
BindPopups(drawn, visible) ==
    [drawn EXCEPT !.popups = {[coord |-> c, action |-> PopupAction(drawn, c)] :
                                 c \in {x \in visible : PopupAction(drawn, x) # NoButton}}]

\* renderGrid with `visible` the cells of the map viewport: the layers drawn
\* before are cleared, every visible cell is queried and gets its popup.
RenderGrid(gm, visible) ==
    BindPopups([gm EXCEPT !.grid = DrawGridCells(gm.grid, GameLive(gm), visible)], visible)

Untouched(gm, store) == [game |-> gm, storage |-> store, wrote |-> "no"]

SaveGame(gm, store, writeOk) ==
    LET currMoveMode == IF gm.moveMgr.currentCtrl # NoCtrl
                        THEN gm.moveMgr.currentCtrl ELSE "geolocation"
        r == ManagerSaveGame(store, gm.player.position, gm.player.inventory,
                             GetModifiedCells(gm.grid), gm.gameWon, currMoveMode, writeOk)
    IN [game |-> gm, storage |-> r.storage, wrote |-> IF r.ok THEN "saved" ELSE "no"]

\* Faulty variant: only the inventory is looked at.
CheckWinInventoryOnly(gm, store, writeOk) ==
    IF gm.gameWon THEN Untouched(gm, store)
    ELSE IF PlayerHasWinningToken(gm.player, WinningVal)
    THEN SaveGame([gm EXCEPT !.gameWon = TRUE], store, writeOk)
    ELSE Untouched(gm, store)

\* Faulty variant: the win is not saved.
CheckWinUnsaved(gm, store, writeOk) ==
    IF gm.gameWon THEN Untouched(gm, store)
    ELSE IF \/ PlayerHasWinningToken(gm.player, WinningVal)
            \/ HasWinningToken(gm.grid, WinningVal)
    THEN Untouched([gm EXCEPT !.gameWon = TRUE], store)
    ELSE Untouched(gm, store)

CheckWin(gm, store, writeOk) ==
    IF gm.gameWon THEN Untouched(gm, store)
    ELSE IF \/ PlayerHasWinningToken(gm.player, WinningVal)
            \/ HasWinningToken(gm.grid, WinningVal)
    THEN SaveGame([gm EXCEPT !.gameWon = TRUE], store, writeOk)
    ELSE Untouched(gm, store)

\* Faulty variant: the update is applied whether or not the game is won.
HandlePosUpdateAlways(gm, position, visible) ==
    RenderGrid([gm EXCEPT !.player.position = LatLngToGridCoord(position)], visible)

HandlePosUpdate(gm, position, visible) ==
    IF gm.gameWon THEN gm
    ELSE RenderGrid([gm EXCEPT !.player.position = LatLngToGridCoord(position)], visible)

\* Faulty variant: the token held before is dropped.
CollectTokenDiscards(gm, store, coord, token, visible, writeOk) ==
    CheckWin(RenderGrid([gm EXCEPT !.player = PickUpToken(@, token),
                                   !.grid = RemoveToken(gm.grid, coord).grid],
                        visible),
             store, writeOk)

CollectToken(gm, store, coord, token, visible, writeOk) ==
    LET oldToken == gm.player.inventory
        removed == RemoveToken(gm.grid, coord).grid
        grid == IF oldToken # NullToken THEN PlaceToken(removed, coord, oldToken) ELSE removed
    IN CheckWin(RenderGrid([gm EXCEPT !.player = PickUpToken(@, token), !.grid = grid],
                           visible),
                store, writeOk)

\* Faulty variant: the inventory is not cleared.
CombineTokensKeepsInventory(gm, store, coord, token, visible, writeOk) ==
    CheckWin(RenderGrid([gm EXCEPT !.grid = PlaceToken(gm.grid, coord,
                                                       Combine(GameLive(gm), token))],
                        visible),
             store, writeOk)

CombineTokens(gm, store, coord, token, visible, writeOk) ==
    LET newToken == Combine(GameLive(gm), token)
        grid == PlaceToken(gm.grid, coord, newToken)
    IN CheckWin(RenderGrid([gm EXCEPT !.grid = grid,
                                      !.player = PlayerPlaceToken(@).player],
                           visible),
                store, writeOk)

PickUpTokenFromPopup(gm, store, coord, visible, writeOk) ==
    LET r == GetOrSpawn(gm.grid, GameLive(gm), coord)
        queried == [gm EXCEPT !.grid = r.grid]
    IN
    IF r.token = NullToken THEN Untouched(queried, store)
    ELSE IF ~IsInRange(gm.player, coord, InteractionRadius) THEN Untouched(queried, store)
    ELSE CollectToken(queried, store, coord, r.token, visible, writeOk)

CombineTokensFromPopup(gm, store, coord, visible, writeOk) ==
    LET r == GetOrSpawn(gm.grid, GameLive(gm), coord)
        queried == [gm EXCEPT !.grid = r.grid]
    IN
    IF r.token = NullToken THEN Untouched(queried, store)
    ELSE IF ~IsInRange(gm.player, coord, InteractionRadius) THEN Untouched(queried, store)
    ELSE IF gm.player.inventory = NullToken
            \/ ~CanCombineWith(gm.player.inventory, r.token)
    THEN Untouched(queried, store)
    ELSE CombineTokens(queried, store, coord, r.token, visible, writeOk)

PlaceTokenFromPopup(gm, store, coord, visible, writeOk) ==
    IF ~IsInRange(gm.player, coord, InteractionRadius) THEN Untouched(gm, store)
    ELSE IF gm.player.inventory = NullToken THEN Untouched(gm, store)
    ELSE LET p == PlayerPlaceToken(gm.player)
             grid == PlaceToken(gm.grid, coord, p.token)
         IN CheckWin(RenderGrid([gm EXCEPT !.player = p.player, !.grid = grid], visible),
                     store, writeOk)

\* BtnMoveCtrl.gridCoordToLatLng: the centre of the cell, in half cells.
GridCoordToLatLng(coord) == <<2 * coord[1] + 1, 2 * coord[2] + 1>>

\* Faulty variant: the control's own flag is not looked at.
BtnMoveUnchecked(gm, deltaI, deltaJ, visible) ==
    HandlePosUpdate(gm,
                    GridCoordToLatLng(<<gm.player.position[1] + deltaI,
                                        gm.player.position[2] + deltaJ>>),
                    visible)

\* BtnMoveCtrl.btnMove.
BtnMove(gm, deltaI, deltaJ, visible) ==
    IF "buttons" \notin gm.moveMgr.started THEN gm
    ELSE HandlePosUpdate(gm,
                         GridCoordToLatLng(<<gm.player.position[1] + deltaI,
                                             gm.player.position[2] + deltaJ>>),
                         visible)

\* UIManager.handleBtnMove.
HandleBtnMove(gm, deltaI, deltaJ, visible) ==
    IF gm.moveMgr.currentCtrl # "buttons" THEN gm
    ELSE BtnMove(gm, deltaI, deltaJ, visible)

\* The keydown listener of BtnMoveCtrl, for one of the movement keys.
KeyDown(gm, deltaI, deltaJ, visible) ==
    IF gm.gameWon THEN gm
    ELSE BtnMove(gm, deltaI, deltaJ, visible)

\* UIManager.switchMoveMode: a successful switch saves the game.
SwitchMoveMode(gm, store, mode, writeOk) ==
    LET switched == SwitchCtrl(gm.moveMgr, mode) IN
    IF switched.ok
    THEN SaveGame([gm EXCEPT !.moveMgr = switched.mgr], store, writeOk)
    ELSE Untouched([gm EXCEPT !.moveMgr = switched.mgr], store)

\* TokenGame.loadGame on a game under construction, from the point where
\* GameStateManager.loadGame has returned `result`.
LoadGameFrom(gm, result) ==
    IF ~result.success THEN [game |-> gm, loaded |-> FALSE]
    ELSE LET p == NewPlayer(result.playerPosition)
             switched == SwitchCtrl(gm.moveMgr, result.movementMode)
         IN [game |->
                [player |-> IF result.playerInventory # NullToken
                            THEN PickUpToken(p, result.playerInventory) ELSE p,
                 grid |-> SetModifiedCells(NewTokenGrid(SessionGrid),
                                           result.gridModifiedCells),
                 gameWon |-> result.gameWon,
                 popups |-> gm.popups,
                 moveMgr |-> IF switched.ok THEN switched.mgr
                             ELSE SwitchCtrl(switched.mgr, "geolocation").mgr],
             loaded |-> TRUE]

LoadGame(gm, store) == LoadGameFrom(gm, ManagerLoadGame(store))

\* The fields of a TokenGame before the constructor calls loadGame.
FreshGame ==
    [player |-> NewPlayer(<<0, 0>>),
     grid |-> NewTokenGrid(SessionGrid),
     gameWon |-> FALSE,
     popups |-> {},
     moveMgr |-> InitMoveCtrls(NewMoveManager)]

\* The rest of the constructor, loadGame having returned l.
ConstructFrom(l, visible) ==
    LET moded == IF ~l.loaded \/ l.game.moveMgr.currentCtrl = NoCtrl
                 THEN [l.game EXCEPT !.moveMgr = SwitchCtrl(@, "geolocation").mgr]
                 ELSE l.game
    IN [game |-> [RenderGrid(moded, visible) EXCEPT !.moveMgr = MoveManagerStart(@)],
        loaded |-> l.loaded]

\* The TokenGame constructor, on the page load that finds `store`.
NewTokenGame(store, visible) == ConstructFrom(LoadGame(FreshGame, store), visible)

\* Faulty variant: the grid of the game before is kept.
NewGameKeepsGrid(gm, store, visible, confirmed) ==
    IF ~confirmed THEN Untouched(gm, store)
    ELSE [game |-> RenderGrid([player |-> NewPlayer(<<0, 0>>),
                               grid |-> gm.grid,
                               gameWon |-> FALSE,
                               popups |-> gm.popups,
                               moveMgr |-> SwitchCtrl(gm.moveMgr, "geolocation").mgr],
                              visible),
          storage |-> DeleteSave(store),
          wrote |-> "replaced"]

\* confirmed: the answer to the confirm() dialog.
NewGame(gm, store, visible, confirmed) ==
    IF ~confirmed THEN Untouched(gm, store)
    ELSE [game |-> RenderGrid([player |-> NewPlayer(<<0, 0>>),
                               grid |-> NewTokenGrid(SessionGrid),
                               gameWon |-> FALSE,
                               popups |-> gm.popups,
                               moveMgr |-> SwitchCtrl(gm.moveMgr, "geolocation").mgr],
                              visible),
          storage |-> DeleteSave(store),
          wrote |-> "replaced"]

\* TokenGame.importGameState; a stored payload is followed by location.reload().
ImportGameState(gm, store, exportData, visible) ==
    LET r == ManagerImportGameState(store, exportData) IN
    IF r.ok
    THEN [game |-> NewTokenGame(r.storage, visible).game, storage |-> r.storage,
          wrote |-> "replaced", success |-> TRUE]
    ELSE [game |-> gm, storage |-> store, wrote |-> "no", success |-> FALSE]

\* ------------------------------------------------------------------------
\* State
\* ------------------------------------------------------------------------

VARIABLES
    grids,      \* the TokenGrid instances a client drives through the API
    genLog,     \* per instance and cell: the results the spawn generator gave
    ret,        \* the last API call: its arguments, the cell before, its result
    game,       \* the TokenGame of the current page: player, grid, gameWon, moveMgr
    storage,    \* the localStorage item "tokenGameSaveData"
    savedFrom,  \* what the game was when the stored item was saved from it
    last,       \* the last game event: its kind, its argument, its outcome
    seen        \* the largest token value held or in a cell since the game was new

apiVars == <<grids, genLog, ret>>

gameVars == <<game, storage, savedFrom, last, seen>>

\* The game state other than the game object.
restVars == <<storage, savedFrom, last, seen>>

vars == <<grids, genLog, ret, game, storage, savedFrom, last, seen>>

Live == UNION {GridTokens(grids[g]) : g \in GridIds} \cup {ret.token}

ClientMade == {t \in Live : t.id[1] = "combine"}

NoCall == [op |-> "none", g |-> 0, coord |-> <<0, 0>>,
           before |-> Undecided, token |-> NullToken]

NoSnapshot == [valid |-> FALSE]

NoEvent == [op |-> "none", arg |-> 0, ok |-> TRUE]

ApiInit ==
    /\ grids = [g \in GridIds |-> NewTokenGrid(g)]
    /\ genLog = [g \in GridIds |-> [c \in Coords |-> <<>>]]
    /\ ret = NoCall

\* No page is open while the API specifications run.
NoGame ==
    /\ game = FreshGame
    /\ storage = NoItem
    /\ savedFrom = NoSnapshot
    /\ last = NoEvent
    /\ seen = 0

Init == ApiInit /\ NoGame

\* ------------------------------------------------------------------------
\* The TokenGrid API, one action per call
\* ------------------------------------------------------------------------

CallGetOrSpawn(g, c) ==
    LET r == GetOrSpawn(grids[g], Live, c) IN
    /\ grids' = [grids EXCEPT ![g] = r.grid]
    /\ genLog' = IF r.rolled
                 THEN [genLog EXCEPT ![g][c] = Append(@, r.token.value)]
                 ELSE genLog
    /\ ret' = [op |-> "getOrSpawn", g |-> g, coord |-> c,
               before |-> CellState(grids[g], c), token |-> r.token]
    /\ UNCHANGED gameVars

CallPlaceToken(g, c) ==
    /\ ret.token # NullToken
    /\ grids' = [grids EXCEPT ![g] = PlaceToken(grids[g], c, ret.token)]
    /\ ret' = [op |-> "placeToken", g |-> g, coord |-> c,
               before |-> CellState(grids[g], c), token |-> ret.token]
    /\ UNCHANGED <<genLog, gameVars>>

CallRemoveToken(g, c) ==
    LET r == RemoveToken(grids[g], c) IN
    /\ grids' = [grids EXCEPT ![g] = r.grid]
    /\ ret' = [op |-> "removeToken", g |-> g, coord |-> c,
               before |-> CellState(grids[g], c), token |-> r.token]
    /\ UNCHANGED <<genLog, gameVars>>

CallGetOrCreateToken(g, v) ==
    LET r == GetOrCreateToken(grids[g], Live, v) IN
    /\ grids' = [grids EXCEPT ![g] = r.grid]
    /\ ret' = [op |-> "getOrCreateToken", g |-> g, coord |-> <<0, 0>>,
               before |-> IF ValKey(v) \in DOMAIN grids[g].tokens THEN v ELSE Undecided,
               token |-> r.token]
    /\ UNCHANGED <<genLog, gameVars>>

CallCombine ==
    /\ ret.token # NullToken
    /\ ret.token.value * 2 <= MaxValue
    /\ Cardinality(ClientMade \ {ret.token}) < MaxClientTokens
    /\ ret' = [op |-> "combine", g |-> 0, coord |-> <<0, 0>>,
               before |-> Undecided, token |-> Combine(Live \ {ret.token}, ret.token)]
    /\ UNCHANGED <<grids, genLog, gameVars>>

Next ==
    \/ \E g \in {1}, c \in Coords : CallGetOrSpawn(g, c)
    \/ \E g \in {1}, c \in Coords : CallPlaceToken(g, c)
    \/ \E g \in {1}, c \in Coords : CallRemoveToken(g, c)
    \/ \E g \in {1}, v \in ClientValues : CallGetOrCreateToken(g, v)
    \/ CallCombine

Spec == Init /\ [][Next]_vars

\* Two independently constructed instances, each driven in any order.
DetCoords == {<<0, 0>>, <<0, 4>>}

NextDet ==
    \/ \E g \in GridIds, c \in DetCoords : CallGetOrSpawn(g, c)
    \/ \E g \in GridIds, c \in DetCoords : CallPlaceToken(g, c)
    \/ \E g \in GridIds, c \in DetCoords : CallRemoveToken(g, c)

DetSpec == Init /\ [][NextDet]_vars

\* ------------------------------------------------------------------------
\* Token, GridCoord, Player and the spawn branch called on their own
\* ------------------------------------------------------------------------

\* Cells handed to isWithin and to the spawn branch.
UnitOrigins == {<<0, 0>>, <<-1, 0>>}

UnitCoords == {<<i, j>> : i \in -1..4, j \in 0..1}

Radii == 0..InteractionRadius

\* Token values and thresholds of the calls.
UnitValues == {1, 2, 4, 8}

UnitThresholds == {1, 4, 5, 64}

\* luck results, in hundredths, around the points where the outcome changes.
Rolls == {0, 19, 20, 24, 25, 49, 50, 74, 75, 99}

\* Cell sizes and spawn probabilities (in hundredths) handed to GameConfig.
CellSizes == {-1, 0, 1}

Probabilities == {-1, 0, 20, 100, 101}

\* `new Token(value)` by a caller that holds the tokens in `used`.
UnitToken(used, value) == NewToken(used, "new", 0, value)

CallIsWithin(a, b, radius) ==
    /\ ret' = [op |-> "isWithin", a |-> a, b |-> b, radius |-> radius,
               result |-> IsWithin(a, b, radius),
               inRange |-> IsInRange(NewPlayer(a), b, radius)]
    /\ UNCHANGED <<grids, genLog, gameVars>>

CallTokenCombine(v) ==
    /\ \E t \in {UnitToken({}, v)} :
          ret' = [op |-> "combine", self |-> t, token |-> Combine({t}, t)]
    /\ UNCHANGED <<grids, genLog, gameVars>>

CallCanCombineWith(v, w) ==
    /\ \E t \in {UnitToken({}, v)} : \E u \in {UnitToken({t}, w)} :
          ret' = [op |-> "canCombineWith", self |-> t, other |-> u,
                  result |-> CanCombineWith(t, u),
                  converse |-> CanCombineWith(u, t)]
    /\ UNCHANGED <<grids, genLog, gameVars>>

CallIsWinning(v, threshold) ==
    /\ ret' = [op |-> "isWinning", self |-> UnitToken({}, v), threshold |-> threshold,
               result |-> IsWinning(UnitToken({}, v), threshold)]
    /\ UNCHANGED <<grids, genLog, gameVars>>

\* The spawn branch of getOrSpawn on a new grid, for given luck results.
CallSpawnWith(c, spawnRoll, valueRoll) ==
    /\ \E r \in {SpawnWith(NewTokenGrid(SessionGrid), {}, c, spawnRoll, valueRoll)} :
          ret' = [op |-> "spawn", coord |-> c,
                  spawnRoll |-> spawnRoll, valueRoll |-> valueRoll,
                  token |-> r.token, cell |-> CellState(r.grid, c)]
    /\ UNCHANGED <<grids, genLog, gameVars>>

\* A configuration is constructed and a TokenGrid is constructed with it.
CallNewGameConfig(cellSize, probability) ==
    /\ \E made \in {NewGameConfig(<<0, 0>>, cellSize, InteractionRadius, probability, 64)} :
       \E world \in {NewConfiguredTokenGrid(SessionGrid, made.config)} :
          ret' = [op |-> "newGameConfig", cellSize |-> cellSize,
                  tokenSpawnProbability |-> probability,
                  thrown |-> made.thrown \/ world.thrown,
                  config |-> world.config]
    /\ UNCHANGED <<grids, genLog, gameVars>>

CallPickUpToken(v) ==
    /\ \E t \in {UnitToken({game.player.inventory}, v)} :
          /\ game' = [game EXCEPT !.player = PickUpToken(@, t)]
          /\ ret' = [op |-> "pickUpToken", before |-> game.player.inventory, token |-> t]
    /\ UNCHANGED <<grids, genLog, restVars>>

CallPlayerPlaceToken ==
    /\ \E r \in {PlayerPlaceToken(game.player)} :
          /\ game' = [game EXCEPT !.player = r.player]
          /\ ret' = [op |-> "placeToken", before |-> game.player.inventory,
                     token |-> r.token]
    /\ UNCHANGED <<grids, genLog, restVars>>

UnitNext ==
    \/ \E a \in UnitOrigins, b \in UnitCoords, radius \in Radii : CallIsWithin(a, b, radius)
    \/ \E v \in UnitValues : CallTokenCombine(v)
    \/ \E v \in UnitValues, w \in UnitValues : CallCanCombineWith(v, w)
    \/ \E v \in UnitValues, threshold \in UnitThresholds : CallIsWinning(v, threshold)
    \/ \E c \in UnitOrigins, spawnRoll \in Rolls, valueRoll \in Rolls :
          CallSpawnWith(c, spawnRoll, valueRoll)
    \/ \E cellSize \in CellSizes, probability \in Probabilities :
          CallNewGameConfig(cellSize, probability)
    \/ \E v \in UnitValues : CallPickUpToken(v)
    \/ CallPlayerPlaceToken

UnitSpec == Init /\ [][UnitNext]_vars

\* ------------------------------------------------------------------------
\* The game: one action per event of a page
\* ------------------------------------------------------------------------

\* The parts of the modelled cells a map viewport shows.
Views == {{<<0, 0>>, <<-1, 0>>}, Coords}

\* Positions the geolocation watcher reports, in half cells.
GeoFixes == {<<1, 1>>, <<1, 3>>}

\* Texts handed to importGameState: no JSON; no player; empty player and grid
\* objects; no memento list; a complete save.
ImportPayloads ==
    << NotJson,
       JsonStringify([grid |-> [modifiedCells |-> <<>>], version |-> Version]),
       JsonStringify([player |-> [empty |-> TRUE], grid |-> [empty |-> TRUE],
                      version |-> Version]),
       JsonStringify([player |-> [position |-> [i |-> 0, j |-> 1], inventory |-> Null],
                      grid |-> [empty |-> TRUE], version |-> Version]),
       JsonStringify([player |-> [position |-> [i |-> 0, j |-> 1], inventory |-> 1],
                      grid |-> [modifiedCells |->
                                  <<[coord |-> GetKey(<<0, 0>>), tokenValue |-> Null]>>],
                      gameWon |-> FALSE, version |-> Version,
                      movementMode |-> "buttons"]) >>

\* What a round trip has to give back: the game as it was when it was saved.
Snapshot(gm) ==
    [valid |-> TRUE,
     position |-> gm.player.position,
     inventory |-> gm.player.inventory.value,
     gameWon |-> gm.gameWon,
     cells |-> [c \in Coords |-> CellState(gm.grid, c)],
     answers |-> [c \in Coords |-> GetOrSpawn(gm.grid, GameLive(gm), c).token.value]]

Event(op, arg, ok) == [op |-> op, arg |-> arg, ok |-> ok]

\* The largest token value in the inventory or in a cell of gm, 0 if none.
MaxHeld(gm) ==
    LET values == {gm.grid.modifiedCells[k].tokenValue : k \in DOMAIN gm.grid.modifiedCells}
                      \cup {gm.player.inventory.value, 0}
    IN CHOOSE v \in values : \A w \in values : w <= v

\* The effect of a handler that returned r.
Handled(r, event) ==
    /\ game' = r.game
    /\ storage' = r.storage
    /\ savedFrom' = CASE r.wrote = "saved" -> Snapshot(r.game)
                      [] r.wrote = "replaced" -> NoSnapshot
                      [] OTHER -> savedFrom
    /\ last' = event
    /\ seen' = IF r.wrote = "replaced" \/ event.op = "reload" \/ seen < MaxHeld(r.game)
               THEN MaxHeld(r.game) ELSE seen
    /\ UNCHANGED apiVars

GameInit ==
    /\ ApiInit
    /\ \E visible \in Views : game = NewTokenGame(NoItem, visible).game
    /\ storage = NoItem
    /\ savedFrom = NoSnapshot
    /\ last = NoEvent
    /\ seen = MaxHeld(game)

\* The geolocation watcher reports a position.
GeoPosition(position, visible) ==
    /\ "geolocation" \in game.moveMgr.started
    /\ \E moved \in {HandlePosUpdate(game, position, visible)} :
          Handled(Untouched(moved, storage), Event("handler", 0, TRUE))

ClickPickUp(coord, visible, writeOk) ==
    \E r \in {PickUpTokenFromPopup(game, storage, coord, visible, writeOk)} :
        Handled(r, Event("handler", 0, TRUE))

ClickCombine(coord, visible, writeOk) ==
    /\ game.player.inventory.value * 2 <= MaxValue
    /\ \E r \in {CombineTokensFromPopup(game, storage, coord, visible, writeOk)} :
          Handled(r, Event("handler", 0, TRUE))

ClickPlace(coord, visible, writeOk) ==
    \E r \in {PlaceTokenFromPopup(game, storage, coord, visible, writeOk)} :
        Handled(r, Event("handler", 0, TRUE))

\* The cells the on-screen buttons may walk the player to.
Walk == {<<0, 0>>, <<0, 1>>}

\* The four move buttons.
Deltas == {<<1, 0>>, <<-1, 0>>, <<0, 1>>, <<0, -1>>}

ClickMove(delta, visible) ==
    /\ <<game.player.position[1] + delta[1], game.player.position[2] + delta[2]>> \in Walk
    /\ \E moved \in {HandleBtnMove(game, delta[1], delta[2], visible)} :
          Handled(Untouched(moved, storage), Event("handler", 0, TRUE))

\* The movement mode selector.
SelectMoveMode(mode, writeOk) ==
    \E r \in {SwitchMoveMode(game, storage, mode, writeOk)} :
        Handled(r, Event("handler", 0, TRUE))

\* The map view has changed (moveend, zoomend), or the constructor's timer fires.
MapMoveEnd(visible) ==
    \E drawn \in {RenderGrid(game, visible)} :
        Handled(Untouched(drawn, storage), Event("handler", 0, TRUE))

ClickSaveGame(writeOk) ==
    \E r \in {SaveGame(game, storage, writeOk)} :
        Handled(r, Event("handler", 0, TRUE))

ClickNewGame(visible, confirmed) ==
    \E r \in {NewGame(game, storage, visible, confirmed)} :
        Handled(r, Event("handler", 0, TRUE))

\* The load button, or the browser's reload: the page is constructed anew.
ReloadPage(visible) ==
    \E made \in {NewTokenGame(storage, visible)} :
        Handled(Untouched(made.game, storage), Event("reload", 0, made.loaded))

CallImportGameState(n, visible) ==
    \E r \in {ImportGameState(game, storage, ImportPayloads[n], visible)} :
        Handled(r, Event("import", n, r.success))

GameNext ==
    \/ \E position \in GeoFixes, visible \in Views : GeoPosition(position, visible)
    \/ \E c \in Coords, visible \in Views, writeOk \in BOOLEAN :
          ClickPickUp(c, visible, writeOk)
    \/ \E c \in Coords, visible \in Views, writeOk \in BOOLEAN :
          ClickCombine(c, visible, writeOk)
    \/ \E c \in Coords, visible \in Views, writeOk \in BOOLEAN :
          ClickPlace(c, visible, writeOk)
    \/ \E delta \in Deltas, visible \in Views : ClickMove(delta, visible)
    \/ \E mode \in Controls, writeOk \in BOOLEAN :
          SelectMoveMode(mode, writeOk)
    \/ \E visible \in Views : MapMoveEnd(visible)
    \/ \E writeOk \in BOOLEAN : ClickSaveGame(writeOk)
    \/ \E visible \in Views, confirmed \in BOOLEAN : ClickNewGame(visible, confirmed)
    \/ \E visible \in Views : ReloadPage(visible)
    \/ \E n \in DOMAIN ImportPayloads, visible \in Views : CallImportGameState(n, visible)

GameSpec == GameInit /\ [][GameNext]_vars

\* ------------------------------------------------------------------------
\* A play session: token actions and position updates, each recorded with
\* its argument and with what the player held and the cell answered before.
\* ------------------------------------------------------------------------

\* The cells of a play session: those above and one more that spawns.
PlayCoords == Coords \cup {<<1, 0>>}

PlayViews == {PlayCoords \ {<<0, 4>>}, PlayCoords}

\* Positions the geolocation watcher reports, in half cells: in cell (0,0),
\* from where (0,4) is out of range, and in cell (0,1), from where it is not.
PlayFixes == {<<1, 1>>, <<0, 3>>}

TokenOps == {"pickup", "combine", "place"}

TokenEvent(op, gm, coord) ==
    Event(op,
          [coord |-> coord,
           held |-> gm.player.inventory.value,
           cell |-> GetOrSpawn(gm.grid, GameLive(gm), coord).token.value],
          TRUE)

\* ok tells whether the game was still open when the position arrived.
PositionEvent(gm, position, source) ==
    Event("position", [position |-> position, source |-> source], ~gm.gameWon)

PlayInit ==
    /\ ApiInit
    /\ \E visible \in PlayViews : game = NewTokenGame(NoItem, visible).game
    /\ storage = NoItem
    /\ savedFrom = NoSnapshot
    /\ last = NoEvent
    /\ seen = MaxHeld(game)

PlayPickUp(coord, visible, writeOk) ==
    \E r \in {PickUpTokenFromPopup(game, storage, coord, visible, writeOk)} :
        Handled(r, TokenEvent("pickup", game, coord))

PlayCombine(coord, visible, writeOk) ==
    /\ game.player.inventory.value * 2 <= MaxValue
    /\ \E r \in {CombineTokensFromPopup(game, storage, coord, visible, writeOk)} :
          Handled(r, TokenEvent("combine", game, coord))

PlayPlace(coord, visible, writeOk) ==
    \E r \in {PlaceTokenFromPopup(game, storage, coord, visible, writeOk)} :
        Handled(r, TokenEvent("place", game, coord))

PlayGeoPosition(position, visible) ==
    /\ "geolocation" \in game.moveMgr.started
    /\ \E moved \in {HandlePosUpdate(game, position, visible)} :
          Handled(Untouched(moved, storage), PositionEvent(game, position, "geolocation"))

\* ok tells whether the confirm() dialog was accepted; the argument is what
\* the game was before.
PlayNewGame(visible, confirmed) ==
    \E r \in {NewGame(game, storage, visible, confirmed)} :
        Handled(r, Event("newGame",
                         [won |-> game.gameWon, mode |-> game.moveMgr.currentCtrl,
                          stored |-> storage # NoItem],
                         confirmed))

PlayNext ==
    \/ \E c \in PlayCoords, visible \in PlayViews, writeOk \in BOOLEAN :
          PlayPickUp(c, visible, writeOk)
    \/ \E c \in PlayCoords, visible \in PlayViews, writeOk \in BOOLEAN :
          PlayCombine(c, visible, writeOk)
    \/ \E c \in PlayCoords, visible \in PlayViews, writeOk \in BOOLEAN :
          PlayPlace(c, visible, writeOk)
    \/ \E position \in PlayFixes, visible \in PlayViews : PlayGeoPosition(position, visible)
    \/ \E visible \in PlayViews, confirmed \in BOOLEAN : PlayNewGame(visible, confirmed)

PlaySpec == PlayInit /\ [][PlayNext]_vars

\* ------------------------------------------------------------------------
\* A session of position updates from both controls, with the token actions
\* at the two cells next to the origin.
\* ------------------------------------------------------------------------

\* Positions the geolocation watcher reports, one of them south of the origin.
MoveFixes == {<<1, 1>>, <<0, 3>>, <<-1, 2>>}

\* The cells the on-screen buttons may walk the player to.
MoveWalk == {<<0, 0>>, <<0, 1>>, <<-1, 1>>}

MoveCoords == {<<0, 0>>, <<-1, 0>>}

MoveClick(delta, visible) ==
    /\ <<game.player.position[1] + delta[1], game.player.position[2] + delta[2]>> \in MoveWalk
    /\ game.moveMgr.currentCtrl = "buttons"
    /\ "buttons" \in game.moveMgr.started
    /\ \E moved \in {HandleBtnMove(game, delta[1], delta[2], visible)} :
          Handled(Untouched(moved, storage),
                  PositionEvent(game,
                                GridCoordToLatLng(<<game.player.position[1] + delta[1],
                                                    game.player.position[2] + delta[2]>>),
                                "buttons"))

MoveSelectMode(mode, writeOk) ==
    \E r \in {SwitchMoveMode(game, storage, mode, writeOk)} :
        Handled(r, Event("mode", mode, TRUE))

\* A movement key is pressed.
MoveKey(delta, visible) ==
    /\ <<game.player.position[1] + delta[1], game.player.position[2] + delta[2]>> \in MoveWalk
    /\ "buttons" \in game.moveMgr.started
    /\ \E moved \in {KeyDown(game, delta[1], delta[2], visible)} :
          Handled(Untouched(moved, storage),
                  PositionEvent(game,
                                GridCoordToLatLng(<<game.player.position[1] + delta[1],
                                                    game.player.position[2] + delta[2]>>),
                                "keyboard"))

MoveNext ==
    \/ \E position \in MoveFixes, visible \in PlayViews : PlayGeoPosition(position, visible)
    \/ \E delta \in Deltas, visible \in PlayViews : MoveClick(delta, visible)
    \/ \E delta \in Deltas, visible \in PlayViews : MoveKey(delta, visible)
    \/ \E visible \in PlayViews, confirmed \in BOOLEAN : PlayNewGame(visible, confirmed)
    \/ \E mode \in Controls, writeOk \in BOOLEAN : MoveSelectMode(mode, writeOk)
    \/ \E c \in MoveCoords, visible \in PlayViews, writeOk \in BOOLEAN :
          PlayPickUp(c, visible, writeOk)
    \/ \E c \in MoveCoords, visible \in PlayViews, writeOk \in BOOLEAN :
          PlayCombine(c, visible, writeOk)

MoveSpec == PlayInit /\ [][MoveNext]_vars

\* ------------------------------------------------------------------------
\* The page as its user drives it: a token action is the click of a button
\* that the popup of a cell, as last drawn, carries.  Four cells near the
\* origin spawn a token of value 1.
\* ------------------------------------------------------------------------

PageCoords == {<<0, 0>>, <<-1, 0>>, <<1, 0>>, <<1, 1>>}

PageViews == {PageCoords, {<<0, 0>>, <<-1, 0>>}}

Offered(coord, action) == [coord |-> coord, action |-> action] \in game.popups

\* A click on a popup button: the cell, what was held and what the cell held
\* before, and whether a write to localStorage succeeds.
PageEvent(op, gm, coord, writeOk) ==
    Event(op,
          [coord |-> coord,
           held |-> gm.player.inventory.value,
           cell |-> GetOrSpawn(gm.grid, GameLive(gm), coord).token.value,
           writeOk |-> writeOk],
          TRUE)

PageInit ==
    /\ ApiInit
    /\ \E visible \in PageViews : game = NewTokenGame(NoItem, visible).game
    /\ storage = NoItem
    /\ savedFrom = NoSnapshot
    /\ last = NoEvent
    /\ seen = MaxHeld(game)

PagePickUp(coord, visible, writeOk) ==
    /\ Offered(coord, "pickup")
    /\ \E r \in {PickUpTokenFromPopup(game, storage, coord, visible, writeOk)} :
          Handled(r, PageEvent("pickup", game, coord, writeOk))

PageCombine(coord, visible, writeOk) ==
    /\ Offered(coord, "combine")
    /\ game.player.inventory.value * 2 <= 2 * WinningVal
    /\ \E r \in {CombineTokensFromPopup(game, storage, coord, visible, writeOk)} :
          Handled(r, PageEvent("combine", game, coord, writeOk))

PagePlace(coord, visible, writeOk) ==
    /\ Offered(coord, "place")
    /\ \E r \in {PlaceTokenFromPopup(game, storage, coord, visible, writeOk)} :
          Handled(r, PageEvent("place", game, coord, writeOk))

PageMoveEnd(visible) ==
    \E drawn \in {RenderGrid(game, visible)} :
        Handled(Untouched(drawn, storage), Event("moveend", 0, TRUE))

PageNext ==
    \/ \E c \in PageCoords, visible \in PageViews, writeOk \in BOOLEAN :
          PagePickUp(c, visible, writeOk)
    \/ \E c \in PageCoords, visible \in PageViews, writeOk \in BOOLEAN :
          PageCombine(c, visible, writeOk)
    \/ \E c \in PageCoords, visible \in PageViews, writeOk \in BOOLEAN :
          PagePlace(c, visible, writeOk)
    \/ \E visible \in PageViews : PageMoveEnd(visible)
    \/ \E position \in PlayFixes, visible \in PageViews : PlayGeoPosition(position, visible)
    \/ \E visible \in PageViews, confirmed \in BOOLEAN : PlayNewGame(visible, confirmed)
    \/ \E visible \in PageViews : ReloadPage(visible)

PageSpec == PageInit /\ [][PageNext]_vars

\* ------------------------------------------------------------------------
\* The MoveManager of a game, driven through regCtrl, switchCtrl, start and
\* stop in any order, with the position updates its controls deliver.  Each
\* control is registered under its own mode name and has the game's
\* position handler.
\* ------------------------------------------------------------------------

\* Names switchCtrl is called with; no control is ever registered as "keyboard".
ModeNames == Controls \cup {"keyboard"}

\* A call of a MoveManager method: its name argument and the manager before.
MgrEvent(op, name, ok) == Event(op, [name |-> name, before |-> game.moveMgr], ok)

MgrHandled(mgr, event) ==
    Handled(Untouched([game EXCEPT !.moveMgr = mgr], storage), event)

MgrInit ==
    /\ ApiInit
    /\ game = [FreshGame EXCEPT !.moveMgr = NewMoveManager]
    /\ storage = NoItem
    /\ savedFrom = NoSnapshot
    /\ last = NoEvent
    /\ seen = 0

CallRegCtrl(name) ==
    \E mgr \in {RegCtrl(game.moveMgr, name)} :
        MgrHandled(mgr, MgrEvent("regCtrl", name, TRUE))

CallSwitchCtrl(name) ==
    \E r \in {SwitchCtrl(game.moveMgr, name)} :
        MgrHandled(r.mgr, MgrEvent("switchCtrl", name, r.ok))

CallStart ==
    \E mgr \in {MoveManagerStart(game.moveMgr)} :
        MgrHandled(mgr, MgrEvent("start", NoCtrl, TRUE))

CallStop ==
    \E mgr \in {MoveManagerStop(game.moveMgr)} :
        MgrHandled(mgr, MgrEvent("stop", NoCtrl, TRUE))

\* btnMove is called, whatever the state of the buttons control.
CallBtnMove(delta, visible) ==
    /\ "buttons" \in game.moveMgr.controls
    /\ <<game.player.position[1] + delta[1], game.player.position[2] + delta[2]>> \in MoveWalk
    /\ \E moved \in {BtnMove(game, delta[1], delta[2], visible)} :
          Handled(Untouched(moved, storage),
                  PositionEvent(game,
                                GridCoordToLatLng(<<game.player.position[1] + delta[1],
                                                    game.player.position[2] + delta[2]>>),
                                "buttons"))

\* A movement key is pressed, whatever the state of the buttons control.
PressKey(delta, visible) ==
    /\ "buttons" \in game.moveMgr.controls
    /\ <<game.player.position[1] + delta[1], game.player.position[2] + delta[2]>> \in MoveWalk
    /\ \E moved \in {KeyDown(game, delta[1], delta[2], visible)} :
          Handled(Untouched(moved, storage),
                  PositionEvent(game,
                                GridCoordToLatLng(<<game.player.position[1] + delta[1],
                                                    game.player.position[2] + delta[2]>>),
                                "keyboard"))

MgrNext ==
    \/ \E name \in Controls : CallRegCtrl(name)
    \/ \E name \in ModeNames : CallSwitchCtrl(name)
    \/ CallStart
    \/ CallStop
    \/ \E delta \in Deltas, visible \in PlayViews : CallBtnMove(delta, visible)
    \/ \E delta \in Deltas, visible \in PlayViews : PressKey(delta, visible)
    \/ \E position \in PlayFixes, visible \in PlayViews : PlayGeoPosition(position, visible)

MgrSpec == MgrInit /\ [][MgrNext]_vars

\* ------------------------------------------------------------------------
\* Claims about TokenGrid
\* ------------------------------------------------------------------------

PlacedAt(r, g, c) == r.op = "placeToken" /\ r.g = g /\ r.coord = c

RemovedAt(r, g, c) == r.op = "removeToken" /\ r.g = g /\ r.coord = c

QueriedAt(r, g, c) == r.op = "getOrSpawn" /\ r.g = g /\ r.coord = c

AllValues == 1..MaxValue

\* What a further getOrSpawn(c) on grid g would answer in this state.
Again(g, c) == GetOrSpawn(grids[g], Live, c)

\* C1: once a cell has a memento, the spawn generator is never evaluated for
\* it again (at most one evaluation per cell and grid), the memento changes
\* only by a placeToken/removeToken at that cell, and every getOrSpawn of the
\* cell, the one just made and any further one, returns what it records.
MementoIsAuthoritative ==
    /\ [](\A g \in GridIds, c \in Coords :
            /\ Len(genLog[g][c]) <= 1
            /\ QueriedAt(ret, g, c) => ret.token.value = CellState(grids[g], c)
            /\ CellState(grids[g], c) # Undecided =>
                  /\ ~Again(g, c).rolled
                  /\ Again(g, c).token.value = CellState(grids[g], c))
    /\ [][\A g \in GridIds, c \in Coords :
            CellState(grids[g], c) # Undecided =>
                /\ genLog'[g][c] = genLog[g][c]
                /\ ~(PlacedAt(ret', g, c) \/ RemovedAt(ret', g, c)) =>
                      CellState(grids'[g], c) = CellState(grids[g], c)
       ]_vars

\* A repeated query of a cell whose token the generator spawned.
RepeatedQueryReached ==
    /\ ret.op = "getOrSpawn"
    /\ ret.before >= 1
    /\ genLog[ret.g][ret.coord] = <<ret.before>>
    /\ ret.token.value = ret.before

\* C2: two independently constructed grids give the same generator result
\* for every cell, whatever was queried, placed or removed at other cells
\* before and in whatever order.
GenerationIsDeterministic ==
    \A c \in Coords :
        /\ (genLog[1][c] # <<>> /\ genLog[2][c] # <<>>) => genLog[1][c][1] = genLog[2][c][1]
        /\ (CellState(grids[1], c) = Undecided /\ CellState(grids[2], c) = Undecided) =>
              Again(1, c).token.value = Again(2, c).token.value

\* Grid 1 first queries (0,0) after a token was placed at (0,4); grid 2 has
\* generated (0,0) with (0,4) untouched.
DifferentHistoriesReached ==
    /\ QueriedAt(ret, 1, <<0, 0>>)
    /\ ret.before = Undecided
    /\ genLog[1][<<0, 4>>] = <<>>
    /\ CellState(grids[1], <<0, 4>>) >= 1
    /\ genLog[2][<<0, 0>>] # <<>>
    /\ CellState(grids[2], <<0, 4>>) = Undecided

\* C3: after removeToken(c) the cell is Empty and every getOrSpawn(c) returns
\* absent, without respawning, until a placeToken at c; removeToken on an
\* already-empty cell returns absent and leaves it Empty.
PickedUpCellStaysEmpty ==
    /\ [](\A g \in GridIds, c \in Coords :
            /\ RemovedAt(ret, g, c) =>
                  /\ CellState(grids[g], c) = Null
                  /\ ret.before = Null => ret.token = NullToken
            /\ CellState(grids[g], c) = Null =>
                  /\ Again(g, c).token = NullToken
                  /\ ~Again(g, c).rolled
                  /\ QueriedAt(ret, g, c) => ret.token = NullToken)
    /\ [][\A g \in GridIds, c \in Coords :
            (CellState(grids[g], c) = Null /\ ~PlacedAt(ret', g, c)) =>
                CellState(grids'[g], c) = Null
       ]_vars

\* A query of a cell whose spawned token was removed: it answers absent.
EmptiedCellQueried ==
    /\ ret.op = "getOrSpawn"
    /\ ret.before = Null
    /\ ret.token = NullToken
    /\ Len(genLog[ret.g][ret.coord]) = 1
    /\ genLog[ret.g][ret.coord][1] >= 1

\* C4: removeToken(c) returns a token of the value the memento of c records,
\* whoever wrote it, and absent only when the cell holds no token; afterwards
\* the memento records Empty.
RemoveReturnsOccupant ==
    ret.op = "removeToken" =>
        /\ CellState(grids[ret.g], ret.coord) = Null
        /\ ret.before >= 0 => ret.token.value = ret.before
        /\ ret.before < 0 => ret.token = NullToken

\* C5: placeToken(c, t) succeeds from any prior state of c, and getOrSpawn(c)
\* then returns a token of value t.value until the next placeToken or
\* removeToken at c.
PlaceIsUnconditional ==
    /\ [](\A g \in GridIds, c \in Coords :
            /\ PlacedAt(ret, g, c) => CellState(grids[g], c) = ret.token.value
            /\ CellState(grids[g], c) >= 0 =>
                  /\ Again(g, c).token.value = CellState(grids[g], c)
                  /\ ~Again(g, c).rolled
            /\ ret.token # NullToken =>
                  LET placed == PlaceToken(grids[g], c, ret.token) IN
                  /\ CellState(placed, c) = ret.token.value
                  /\ GetOrSpawn(placed, Live, c).token.value = ret.token.value)
    /\ [][\A g \in GridIds, c \in Coords :
            (CellState(grids[g], c) >= 0
                /\ ~(PlacedAt(ret', g, c) \/ RemovedAt(ret', g, c))) =>
                CellState(grids'[g], c) = CellState(grids[g], c)
       ]_vars

\* A query of a cell the generator left empty and a token was then placed on.
PlacedCellQueried ==
    /\ ret.op = "getOrSpawn"
    /\ ret.before >= 1
    /\ ret.token.value = ret.before
    /\ genLog[ret.g][ret.coord] = <<Null>>
    /\ GetKey(ret.coord) \in DOMAIN grids[ret.g].tokens

\* C6: hasWinningToken(threshold) is true exactly when some cell's memento
\* records a token value >= threshold.
HasWinningIffMemento ==
    \A g \in GridIds, th \in Thresholds :
        HasWinningToken(grids[g], th)
            <=> \E c \in Coords : CellState(grids[g], c) >= th

\* ------------------------------------------------------------------------
\* Claims about the game and its persistence
\* ------------------------------------------------------------------------

\* C7: a page constructed from a save that saveGame wrote has the player
\* position, the inventory value (or none), the gameWon flag and the cell
\* mementos of the game that was saved, and its getOrSpawn answers for every
\* cell what the saved game's getOrSpawn answered, cells without memento
\* included.
SaveLoadRoundTrip ==
    (last.op = "reload" /\ savedFrom.valid) =>
        /\ last.ok
        /\ game.player.position = savedFrom.position
        /\ game.player.inventory.value = savedFrom.inventory
        /\ game.gameWon = savedFrom.gameWon
        /\ \A c \in Coords :
              /\ savedFrom.cells[c] # Undecided =>
                    CellState(game.grid, c) = savedFrom.cells[c]
              /\ GetOrSpawn(game.grid, GameLive(game), c).token.value
                    = savedFrom.answers[c]

\* A won game saved away from the origin, holding the winning token, with a
\* picked-up cell and a cell never looked at, has been loaded again.
WonGameReloaded ==
    /\ last.op = "reload"
    /\ last.ok
    /\ savedFrom.valid
    /\ savedFrom.position = <<0, 1>>
    /\ savedFrom.inventory = WinningVal
    /\ savedFrom.gameWon
    /\ \E c \in Coords : savedFrom.cells[c] = Null
    /\ \E c \in Coords : savedFrom.cells[c] = Undecided

\* A payload is malformed when it is no JSON document or lacks the player,
\* the grid, the version, the player position or the memento list.
Malformed(text) ==
    \/ ~JsonParse(text).ok
    \/ "player" \notin DOMAIN text.data
    \/ "grid" \notin DOMAIN text.data
    \/ "version" \notin DOMAIN text.data
    \/ "position" \notin DOMAIN text.data.player
    \/ "modifiedCells" \notin DOMAIN text.data.grid

\* C8: importGameState of a malformed payload returns false and leaves the
\* stored save as it was.
MalformedImportRejected ==
    [][(last'.op = "import" /\ Malformed(ImportPayloads[last'.arg])) =>
            (~last'.ok /\ storage' = storage)]_vars

\* C9: every token the grid or the player refers to is the instance the
\* session grid's cache holds for its value, so no value has two instances.
FlyweightUniqueness ==
    \A t \in GameLive(game) \ {NullToken} :
        /\ ValKey(t.value) \in DOMAIN game.grid.tokens
        /\ game.grid.tokens[ValKey(t.value)] = t

\* C10: a flyweight entry is never evicted or replaced, so every
\* getOrCreateToken(v) on one grid returns the same instance, whatever
\* getOrSpawn, placeToken and removeToken calls come in between.
FlyweightIdentityStable ==
    /\ [](\A g \in GridIds, v \in AllValues :
            ValKey(v) \in DOMAIN grids[g].tokens =>
                GetOrCreateToken(grids[g], Live, v)
                    = [grid |-> grids[g], token |-> grids[g].tokens[ValKey(v)]])
    /\ [][\A g \in GridIds, v \in AllValues :
            ValKey(v) \in DOMAIN grids[g].tokens =>
                /\ ValKey(v) \in DOMAIN grids'[g].tokens
                /\ grids'[g].tokens[ValKey(v)] = grids[g].tokens[ValKey(v)]
                /\ (ret'.op = "getOrCreateToken" /\ ret'.g = g /\ ret'.token.value = v) =>
                      ret'.token = grids[g].tokens[ValKey(v)]
       ]_vars

\* getOrCreateToken hits the cache for a value whose spawned token was
\* removed from its cell.
CacheHitAfterRemoval ==
    /\ ret.op = "getOrCreateToken"
    /\ ret.before = ret.token.value
    /\ \E c \in Coords :
          /\ CellState(grids[ret.g], c) = Null
          /\ genLog[ret.g][c] = <<ret.token.value>>

\* ------------------------------------------------------------------------
\* Claims about the token actions and the position updates of the game
\* ------------------------------------------------------------------------

\* What a cell holds: the value its memento records or, for a cell not yet
\* decided, the value the generator decides on the first query.
Content(gm, c) == GetOrSpawn(gm.grid, GameLive(gm), c).token.value

SameCells(before, after) == \A c \in PlayCoords : Content(after, c) = Content(before, c)

\* C11: once gameWon is true, no pick-up, combine or place action changes
\* what a cell holds or the player's inventory.
WinLock ==
    [][(game.gameWon /\ last'.op \in TokenOps) =>
            /\ game'.player.inventory = game.player.inventory
            /\ SameCells(game, game')]_vars

\* C12: after every token action, gameWon is true exactly when a token of
\* value >= winningVal has been in the inventory or in a cell since the game
\* was new, and it becomes true in the action that first makes such a token.
WinDetection ==
    /\ [](last.op \in TokenOps => (game.gameWon <=> seen >= WinningVal))
    /\ [][(seen < WinningVal /\ seen' >= WinningVal) =>
              (game'.gameWon /\ last'.op \in TokenOps)]_vars

\* The combine that made the first token of the winning value has won the game.
WonByCombine ==
    /\ last.op = "combine"
    /\ last.arg.held < WinningVal
    /\ last.arg.cell < WinningVal
    /\ CellState(game.grid, last.arg.coord) >= WinningVal
    /\ game.gameWon

\* C13: a combine request on cell c takes effect exactly when the player,
\* in range of c, holds a token of the value v of the token in c; then c
\* holds 2*v and the inventory is empty.  Otherwise the cell and the
\* inventory stay as they were.  No other cell changes either way.
CombineRule ==
    /\ [](last.op = "combine" =>
            IF /\ last.arg.held >= 1
               /\ last.arg.held = last.arg.cell
               /\ IsWithin(game.player.position, last.arg.coord, InteractionRadius)
            THEN /\ CellState(game.grid, last.arg.coord) = 2 * last.arg.held
                 /\ Content(game, last.arg.coord) = 2 * last.arg.held
                 /\ game.player.inventory = NullToken
            ELSE /\ Content(game, last.arg.coord) = last.arg.cell
                 /\ game.player.inventory.value = last.arg.held)
    /\ [][last'.op = "combine" =>
            /\ \A c \in PlayCoords \ {last'.arg.coord} : Content(game', c) = Content(game, c)
            /\ game'.player.inventory \in {game.player.inventory, NullToken}]_vars

\* Two tokens of value 1 have been combined into one of value 2.
OnesCombined ==
    /\ last.op = "combine"
    /\ last.arg.held = 1
    /\ last.arg.cell = 1
    /\ CellState(game.grid, last.arg.coord) = 2
    /\ game.player.inventory = NullToken

\* C14: a pick-up at an in-range cell that holds a token of value b leaves
\* the inventory holding b and the cell holding the token held before, or
\* Empty when nothing was held.
SwapOnPickup ==
    /\ []((/\ last.op = "pickup"
           /\ last.arg.cell >= 1
           /\ IsWithin(game.player.position, last.arg.coord, InteractionRadius)) =>
            /\ game.player.inventory.value = last.arg.cell
            /\ CellState(game.grid, last.arg.coord)
                  = IF last.arg.held >= 1 THEN last.arg.held ELSE Null
            /\ Content(game, last.arg.coord)
                  = IF last.arg.held >= 1 THEN last.arg.held ELSE Null)
    /\ [][(/\ last'.op = "pickup"
           /\ last'.arg.cell >= 1
           /\ IsWithin(game.player.position, last'.arg.coord, InteractionRadius)
           /\ game.player.inventory # NullToken) =>
            /\ GetKey(last'.arg.coord) \in DOMAIN game'.grid.tokens
            /\ game'.grid.tokens[GetKey(last'.arg.coord)] = game.player.inventory]_vars

\* In a game not yet won, a player holding a token has picked up another:
\* the cell now holds the one held before.
SwappedBeforeWin ==
    /\ last.op = "pickup"
    /\ last.arg.held >= 1
    /\ last.arg.cell >= 1
    /\ ~game.gameWon
    /\ game.player.inventory.value = last.arg.cell
    /\ CellState(game.grid, last.arg.coord) = last.arg.held

PositionLastWriteWins ==
    /\ []((last.op = "position" /\ last.ok) =>
            game.player.position = <<last.arg.position[1] \div 2,
                                     last.arg.position[2] \div 2>>)
    /\ [][last'.op = "position" =>
            /\ game'.player.inventory = game.player.inventory
            /\ SameCells(game, game')]_vars

\* A button move has taken a player who holds a token to a cell south of
\* the origin.
MovedSouthByButton ==
    /\ last.op = "position"
    /\ last.ok
    /\ last.arg.source = "buttons"
    /\ last.arg.position[1] < 0
    /\ game.player.position = <<-1, 1>>
    /\ game.player.inventory # NullToken

\* Integer pairs whose keys are compared: both signs, one and two digits.
KeyPairs == {-11, -1, 0, 1, 11} \X {-11, -1, 0, 1, 11}

\* C23: a getOrSpawn(c), placeToken(c, t) or removeToken(c) leaves every
\* other cell d as it was: the entry kept under d's key, the state of d and
\* the answer of a later getOrSpawn(d), negative indices included.
CellFrame ==
    [][ret'.op \in {"getOrSpawn", "placeToken", "removeToken"} =>
          /\ \A d \in (KeyPairs \cup Coords) \ {ret'.coord} :
                /\ (GetKey(d) \in DOMAIN grids'[ret'.g].tokens)
                      = (GetKey(d) \in DOMAIN grids[ret'.g].tokens)
                /\ GetKey(d) \in DOMAIN grids[ret'.g].tokens =>
                      grids'[ret'.g].tokens[GetKey(d)] = grids[ret'.g].tokens[GetKey(d)]
          /\ \A d \in Coords \ {ret'.coord} :
                /\ CellState(grids'[ret'.g], d) = CellState(grids[ret'.g], d)
                /\ GetOrSpawn(grids'[ret'.g], Live', d).token.value
                      = GetOrSpawn(grids[ret'.g], Live, d).token.value
                /\ GetOrSpawn(grids'[ret'.g], Live', d).rolled
                      = GetOrSpawn(grids[ret'.g], Live, d).rolled]_vars

\* A token has been placed on the cell with a negative index while the origin
\* holds a token and the far cell is undecided.
PlacedBesideOthers ==
    /\ ret.op = "placeToken"
    /\ ret.coord = <<-1, 0>>
    /\ CellState(grids[ret.g], <<0, 0>>) = 1
    /\ CellState(grids[ret.g], <<0, 4>>) = Undecided

MovementDisabledAfterWin ==
    [][(game.gameWon /\ ~(last'.op = "newGame" /\ last'.ok)) =>
            game'.player.position = game.player.position]_vars

\* A position in another cell than the player's has arrived in a won game.
UpdateIgnoredAfterWin ==
    /\ last.op = "position"
    /\ ~last.ok
    /\ game.gameWon
    /\ game.player.position # LatLngToGridCoord(last.arg.position)

\* ------------------------------------------------------------------------
\* Claims about the page as its user drives it
\* ------------------------------------------------------------------------

\* C26: the action that first sets gameWon saves the game with gameWon true
\* when the write succeeds; a page constructed from a save of a won game
\* starts won and its popups carry no button; and from then on
\* nothing but a confirmed newGame or another page load
\* changes the player or what a cell holds, or brings a button back.
WinSurvivesReload ==
    /\ []((last.op = "reload" /\ savedFrom.valid /\ savedFrom.gameWon) =>
            /\ last.ok
            /\ game.gameWon
            /\ game.popups = {})
    /\ [][(~game.gameWon /\ game'.gameWon /\ last'.op \in TokenOps /\ last'.arg.writeOk) =>
              /\ savedFrom' = Snapshot(game')
              /\ ManagerLoadGame(storage').success
              /\ ManagerLoadGame(storage').gameWon]_vars
    /\ [][(/\ game.gameWon
           /\ game.popups = {}
           /\ last'.op # "reload"
           /\ ~(last'.op = "newGame" /\ last'.ok)) =>
              /\ game'.gameWon
              /\ game'.popups = {}
              /\ game'.player = game.player
              /\ \A c \in PageCoords : Content(game', c) = Content(game, c)]_vars

\* A page has been constructed from the save a winning combine wrote.
WonSaveOpenedAgain ==
    /\ last.op = "reload"
    /\ last.ok
    /\ savedFrom.valid
    /\ savedFrom.gameWon
    /\ savedFrom.inventory = Null
    /\ game.gameWon
    /\ game.popups = {}
    /\ \E c \in PageCoords : CellState(game.grid, c) = WinningVal

Worth(value) == IF value >= 0 THEN value ELSE 0

RECURSIVE CellsTotal(_, _)
CellsTotal(gm, cells) ==
    IF cells = {} THEN 0
    ELSE LET c == CHOOSE x \in cells : TRUE
         IN Worth(Content(gm, c)) + CellsTotal(gm, cells \ {c})

\* The sum of the token values of the inventory and the cells, a cell not
\* yet decided counted with the token its first getOrSpawn gives it.
TotalValue(gm) == Worth(gm.player.inventory.value) + CellsTotal(gm, PageCoords)

ValuesBounded ==
    /\ [](/\ MaxHeld(game) < 2 * WinningVal
          /\ game.player.inventory # NullToken => game.player.inventory.value >= 1
          /\ \A c \in PageCoords :
                CellState(game.grid, c) \in {Undecided, Null} \cup (1..(2 * WinningVal - 1)))
    /\ [][(last'.op = "combine" /\ game'.player # game.player) =>
              (~game.gameWon /\ last'.arg.held < WinningVal)]_vars

\* The largest token there can be: a combine has made one of the winning
\* value and it has then been picked up.
WinningTokenHeld ==
    /\ game.gameWon
    /\ game.player.inventory.value = WinningVal
    /\ last.op = "pickup"
    /\ MaxHeld(game) = WinningVal

\* ------------------------------------------------------------------------
\* Claims about the MoveManager
\* ------------------------------------------------------------------------

\* C25: switchCtrl with a registered name returns true and makes that control
\* the current one; the control that was current is stopped before the new
\* one is started, so the new one is started exactly when the manager is
\* active, also when it is the one that was current; start() starts the
\* current control and no other.
SwitchCtrlContract ==
    /\ []((last.op = "switchCtrl" /\ last.arg.name \in last.arg.before.controls) =>
            /\ last.ok
            /\ game.moveMgr.currentCtrl = last.arg.name
            /\ game.moveMgr.isActive = last.arg.before.isActive
            /\ last.arg.name \in game.moveMgr.started <=> game.moveMgr.isActive
            /\ last.arg.before.currentCtrl # last.arg.name =>
                  last.arg.before.currentCtrl \notin game.moveMgr.started
            /\ game.moveMgr.started \ {last.arg.name}
                  = last.arg.before.started \ {last.arg.name, last.arg.before.currentCtrl})
    /\ [](last.op = "start" =>
            /\ game.moveMgr.isActive
            /\ game.moveMgr.started
                  = last.arg.before.started
                       \cup (IF game.moveMgr.currentCtrl = NoCtrl
                             THEN {} ELSE {game.moveMgr.currentCtrl}))

\* An active manager has been switched to the control that was current
\* already: the control was stopped and started again.
SwitchedToCurrent ==
    /\ last.op = "switchCtrl"
    /\ last.ok
    /\ last.arg.before.isActive
    /\ last.arg.before.currentCtrl = last.arg.name
    /\ last.arg.name \in last.arg.before.started
    /\ last.arg.name \in game.moveMgr.started

\* C27: switchCtrl with a name no control is registered under returns false
\* and leaves the manager and its controls exactly as they were.
FailedSwitchChangesNothing ==
    (last.op = "switchCtrl" /\ last.arg.name \notin last.arg.before.controls) =>
        /\ ~last.ok
        /\ game.moveMgr = last.arg.before

\* C28: at most one control is active and an active control is the current
\* one; a move asked for by button or key changes the position only while
\* the buttons control is active.
OneActiveControl ==
    /\ [](/\ Cardinality(game.moveMgr.started) <= 1
          /\ game.moveMgr.started \subseteq {game.moveMgr.currentCtrl})
    /\ [][(/\ last'.op = "position"
           /\ last'.arg.source \in {"buttons", "keyboard"}
           /\ game'.player.position # game.player.position) =>
              (/\ "buttons" \in game.moveMgr.started
               /\ game.moveMgr.currentCtrl = "buttons")]_vars

\* A button move was asked for while the geolocation control was the active
\* one, after the buttons control had been active: nothing moved.
ButtonIgnoredInGeoMode ==
    /\ last.op = "position"
    /\ last.arg.source = "buttons"
    /\ game.moveMgr.started = {"geolocation"}
    /\ game.player.position = <<0, 1>>
    /\ LatLngToGridCoord(last.arg.position) # game.player.position

\* ------------------------------------------------------------------------
\* Claims about Player, GridCoord, Token and the generator
\* ------------------------------------------------------------------------

\* C16: Player.placeToken() leaves the inventory empty and returns what the
\* slot held (absent when it was empty); Player.pickUpToken(t) leaves the
\* inventory holding exactly t, whatever it held before.
PlayerSingleSlot ==
    /\ ret.op = "placeToken" =>
          /\ game.player.inventory = NullToken
          /\ ret.token = ret.before
    /\ ret.op = "pickUpToken" => game.player.inventory = ret.token
    /\ \A v \in UnitValues :
          LET t == UnitToken({game.player.inventory}, v)
              held == PickUpToken(game.player, t)
          IN /\ held.inventory = t
             /\ PlayerPlaceToken(held) = [player |-> [held EXCEPT !.inventory = NullToken],
                                          token |-> t]

\* placeToken() has handed out the token a pickUpToken over an occupied slot
\* put there.
HeldTokenPlaced ==
    /\ ret.op = "placeToken"
    /\ ret.before # NullToken
    /\ ret.before.id[3] = 2
    /\ ret.token = ret.before
    /\ game.player.inventory = NullToken

\* C17: a.isWithin(b, r) holds exactly when a.distanceTo(b) <= r, and
\* Player.isInRange gives the same answer.
IsWithinIffDistance ==
    ret.op = "isWithin" =>
        /\ ret.result <=> (DistanceToSq(ret.a, ret.b) <= ret.radius * ret.radius)
        /\ ret.inRange = ret.result

\* C18: combine() returns a token of twice the value that is not the
\* receiver, whose value stays; canCombineWith is equality of the values,
\* hence symmetric; isWinning(threshold) is value >= threshold.
TokenOperationsPure ==
    /\ ret.op = "combine" =>
          /\ ret.token.value = 2 * ret.self.value
          /\ ret.token.id # ret.self.id
          /\ ret.self.value \in UnitValues
    /\ ret.op = "canCombineWith" =>
          /\ ret.result <=> (ret.self.value = ret.other.value)
          /\ ret.result = ret.converse
    /\ ret.op = "isWinning" => (ret.result <=> (ret.self.value >= ret.threshold))

\* Token(4).combine() has given a token of value 8.
FourCombined ==
    /\ ret.op = "combine"
    /\ ret.self.value = 4
    /\ ret.token.value = 8

\* C19: the spawn branch gives a token exactly when the spawn roll is
\* strictly below tokenSpawnProbability, the token's value is in
\* 1..MaxInitialPower for every value roll, and the memento records it.
GeneratedValuesBounded ==
    ret.op = "spawn" =>
        /\ (ret.token # NullToken) <=> (ret.spawnRoll < TokenSpawnProbability)
        /\ ret.token # NullToken =>
              /\ ret.token.value \in 1..MaxInitialPower
              /\ ret.cell = ret.token.value
        /\ ret.token = NullToken => ret.cell = Null

\* The largest value roll has spawned a token, at the largest spawn roll
\* that still spawns.
LargestRollSpawned ==
    /\ ret.op = "spawn"
    /\ ret.spawnRoll = TokenSpawnProbability - 1
    /\ ret.valueRoll = 99
    /\ ret.token.value = MaxInitialPower

\* C21: constructing a configuration, and a TokenGrid with it, fails when
\* the spawn probability is outside [0,1] or the cell size is not positive.
InvalidConfigRejected ==
    (/\ ret.op = "newGameConfig"
     /\ \/ ret.tokenSpawnProbability < 0
        \/ ret.tokenSpawnProbability > 100
        \/ ret.cellSize <= 0) => ret.thrown

====
